---- MODULE Spec2Model ----
(***************************************************************************)
(* The dialogue controller of ReportBot (src/bot.py) as a state machine.   *)
(* One conversation is followed turn by turn: every inbound activity is a  *)
(* step that reads the conversation record, runs the handler with the      *)
(* outcomes of the external calls it makes (file share, report-generation  *)
(* function) and writes the record back (src/app.py, _logic).              *)
(*                                                                         *)
(* Spec follows one conversation whose messages are handled one after the  *)
(* other.  SpecPoints applies generate_agenda_points to lists of items.    *)
(* SpecLookup applies get_next_meeting_agenda to files of meetings.        *)
(* SpecTwo follows two conversations on the same share, and SpecAsync the  *)
(* handlers of one conversation as the tasks the web server runs them as.  *)
(*                                                                         *)
(* A text is a sequence of one-character strings, so that strip(),         *)
(* upper(), split() and startswith() are computed as Python computes them. *)
(***************************************************************************)
EXTENDS Integers, Sequences, FiniteSets, TLC

VARIABLES
    conv_data,      \* the persisted record of the conversation
    agenda_file,    \* the meetings of agenda.json on the file share
    now,            \* the clock read by datetime.utcnow()
    junta_enabled,  \* self.junta_enabled, fixed at construction
    turn,           \* what the last handled activity did (observation only)
    turns,          \* number of activities handled so far
    conv_other,     \* the persisted record of a second conversation
    inflight,       \* the handlers that have begun and not yet finished
    submitted,      \* agenda items submitted to generate_agenda_points
    validated       \* what generate_agenda_points made of them

vars ==
    <<conv_data, agenda_file, now, junta_enabled, turn, turns, conv_other, inflight,
      submitted, validated>>

----------------------------------------------------------------------------
(* Bounds of the model.                                                    *)

\* Activities handled in one behaviour.
MaxTurns == 6

\* Longest free text (in characters) drawn from FreeAlphabet.
MaxLen == 1

\* Last clock value; the meetings of the file start at 0, 1 and 2.
MaxTime == 1

\* Longest list of items submitted to generate_agenda_points in SpecPoints.
MaxItems == 3

\* Longest list of meetings in agenda.json in SpecLookup.
MaxMeetings == 3

\* Number of messages followed in SpecTwo, over both conversations.
MaxTurnsTwo == 3

\* Number of messages followed in SpecAsync, and of handlers under way at once.
MaxTurnsAsync == 3
MaxInflight == 2

----------------------------------------------------------------------------
(* Python's str operations on texts.                                       *)

None == <<>>
Some(x) == <<x>>

Min(S) == CHOOSE x \in S : \A y \in S : x <= y
Max(S) == CHOOSE x \in S : \A y \in S : x >= y

\* The characters str.strip() and str.split() treat as white space.
Whitespace == {" ", "\n", "\t"}

LowerLetters ==
    <<"a", "b", "c", "d", "e", "f", "g", "h", "i", "j", "k", "l", "m", "n", "o", "p",
      "q", "r", "s", "t", "u", "v", "w", "x", "y", "z", "á", "é", "í", "ó", "ú", "ñ">>
UpperLetters ==
    <<"A", "B", "C", "D", "E", "F", "G", "H", "I", "J", "K", "L", "M", "N", "O", "P",
      "Q", "R", "S", "T", "U", "V", "W", "X", "Y", "Z", "Á", "É", "Í", "Ó", "Ú", "Ñ">>

LowerSet == {LowerLetters[i] : i \in 1..Len(LowerLetters)}
UpperSet == {UpperLetters[i] : i \in 1..Len(UpperLetters)}

\* c.isalpha()
IsAlpha(c) == c \in LowerSet \cup UpperSet

\* c.upper() for one character
UpperChar(c) ==
    IF c \in LowerSet
    THEN UpperLetters[CHOOSE i \in 1..Len(LowerLetters) : LowerLetters[i] = c]
    ELSE c

\* s.upper()
Upper(s) == IF s = <<>> THEN <<>> ELSE [i \in 1..Len(s) |-> UpperChar(s[i])]

\* s.strip()
Strip(s) ==
    LET keep == {i \in 1..Len(s) : s[i] \notin Whitespace}
    IN  IF keep = {} THEN <<>> ELSE SubSeq(s, Min(keep), Max(keep))

\* c in s
Contains(s, c) == \E i \in 1..Len(s) : s[i] = c

\* s.split(sep) for a one-character separator
RECURSIVE Split(_, _)
Split(s, sep) ==
    LET at == {i \in 1..Len(s) : s[i] = sep}
    IN  IF at = {} THEN <<s>>
        ELSE <<SubSeq(s, 1, Min(at) - 1)>> \o Split(SubSeq(s, Min(at) + 1, Len(s)), sep)

\* len(s.split()): the number of maximal runs of non-white-space characters
WordCount(s) ==
    Cardinality({i \in 1..Len(s) :
                    s[i] \notin Whitespace /\ (i = 1 \/ s[i - 1] \in Whitespace)})

\* s.startswith(prefix)
StartsWith(s, prefix) ==
    Len(s) >= Len(prefix) /\ SubSeq(s, 1, Len(prefix)) = prefix

\* [f(x) for x in xs if x.strip()] with f = strip
StrippedNonEmpty(xs) ==
    LET stripped == IF xs = <<>> THEN <<>> ELSE [i \in 1..Len(xs) |-> Strip(xs[i])]
        NonEmpty(p) == p # <<>>
    IN  SelectSeq(stripped, NonEmpty)

----------------------------------------------------------------------------
(* The literal texts of src/bot.py.                                        *)

\* "Revisar contenido de la sesión"
T_RevisarContenido ==
    <<"R", "e", "v", "i", "s", "a", "r", " ", "c", "o", "n", "t", "e", "n", "i", "d", "o",
      " ", "d", "e", " ", "l", "a", " ", "s", "e", "s", "i", "ó", "n">>

\* "Generar la presentación"
T_GenerarPresentacion ==
    <<"G", "e", "n", "e", "r", "a", "r", " ", "l", "a", " ", "p", "r", "e", "s", "e", "n",
      "t", "a", "c", "i", "ó", "n">>

\* "Revisar agenda"
T_RevisarAgenda ==
    <<"R", "e", "v", "i", "s", "a", "r", " ", "a", "g", "e", "n", "d", "a">>

\* "Realizar modificaciones"
T_RealizarModificaciones ==
    <<"R", "e", "a", "l", "i", "z", "a", "r", " ", "m", "o", "d", "i", "f", "i", "c", "a",
      "c", "i", "o", "n", "e", "s">>

\* "Reescribir toda la agenda"
T_Reescribir ==
    <<"R", "e", "e", "s", "c", "r", "i", "b", "i", "r", " ", "t", "o", "d", "a", " ", "l",
      "a", " ", "a", "g", "e", "n", "d", "a">>

\* "Mantener los puntos anteriores y agregar nuevos"
T_Mantener ==
    <<"M", "a", "n", "t", "e", "n", "e", "r", " ", "l", "o", "s", " ", "p", "u", "n", "t",
      "o", "s", " ", "a", "n", "t", "e", "r", "i", "o", "r", "e", "s", " ", "y", " ", "a",
      "g", "r", "e", "g", "a", "r", " ", "n", "u", "e", "v", "o", "s">>

\* "Confirmar y Generar Presentación"
T_Confirmar ==
    <<"C", "o", "n", "f", "i", "r", "m", "a", "r", " ", "y", " ", "G", "e", "n", "e", "r",
      "a", "r", " ", "P", "r", "e", "s", "e", "n", "t", "a", "c", "i", "ó", "n">>

\* "Descartar y volver al inicio"
T_Descartar ==
    <<"D", "e", "s", "c", "a", "r", "t", "a", "r", " ", "y", " ", "v", "o", "l", "v", "e",
      "r", " ", "a", "l", " ", "i", "n", "i", "c", "i", "o">>

\* "Reintentar"
T_Reintentar ==
    <<"R", "e", "i", "n", "t", "e", "n", "t", "a", "r">>

\* "Volver al inicio"
T_VolverAlInicio ==
    <<"V", "o", "l", "v", "e", "r", " ", "a", "l", " ", "i", "n", "i", "c", "i", "o">>

\* "Sí"
T_Si ==
    <<"S", "í">>

\* "Proceder al envío"
T_Proceder ==
    <<"P", "r", "o", "c", "e", "d", "e", "r", " ", "a", "l", " ", "e", "n", "v", "í", "o">>

\* "REINTENTAR"
U_REINTENTAR ==
    <<"R", "E", "I", "N", "T", "E", "N", "T", "A", "R">>

\* "VOLVER AL INICIO"
U_VOLVER_AL_INICIO ==
    <<"V", "O", "L", "V", "E", "R", " ", "A", "L", " ", "I", "N", "I", "C", "I", "O">>

\* "Punto inválido"
P_PuntoInvalido ==
    <<"P", "u", "n", "t", "o", " ", "i", "n", "v", "á", "l", "i", "d", "o">>

\* "Demasiados puntos"
P_DemasiadosPuntos ==
    <<"D", "e", "m", "a", "s", "i", "a", "d", "o", "s", " ", "p", "u", "n", "t", "o", "s">>

\* "La entrada no puede"
P_LaEntradaNoPuede ==
    <<"L", "a", " ", "e", "n", "t", "r", "a", "d", "a", " ", "n", "o", " ", "p", "u", "e",
      "d", "e">>

\* "La entrada no puede estar vacía."
E_EntradaVacia ==
    <<"L", "a", " ", "e", "n", "t", "r", "a", "d", "a", " ", "n", "o", " ", "p", "u", "e",
      "d", "e", " ", "e", "s", "t", "a", "r", " ", "v", "a", "c", "í", "a", ".">>

\* "Demasiados puntos. Máximo 10 permitidos."
E_DemasiadosPuntos ==
    <<"D", "e", "m", "a", "s", "i", "a", "d", "o", "s", " ", "p", "u", "n", "t", "o", "s",
      ".", " ", "M", "á", "x", "i", "m", "o", " ", "1", "0", " ", "p", "e", "r", "m", "i",
      "t", "i", "d", "o", "s", ".">>

\* "No se proporcionaron puntos de agenda válidos."
E_SinPuntosValidos ==
    <<"N", "o", " ", "s", "e", " ", "p", "r", "o", "p", "o", "r", "c", "i", "o", "n", "a",
      "r", "o", "n", " ", "p", "u", "n", "t", "o", "s", " ", "d", "e", " ", "a", "g", "e",
      "n", "d", "a", " ", "v", "á", "l", "i", "d", "o", "s", ".">>

\* "Punto inválido (debe contener letras): "
E_DebeContenerLetras ==
    <<"P", "u", "n", "t", "o", " ", "i", "n", "v", "á", "l", "i", "d", "o", " ", "(", "d",
      "e", "b", "e", " ", "c", "o", "n", "t", "e", "n", "e", "r", " ", "l", "e", "t", "r",
      "a", "s", ")", ":", " ">>

\* "Punto inválido (requiere 1-20 palabras): "
E_RequierePalabras ==
    <<"P", "u", "n", "t", "o", " ", "i", "n", "v", "á", "l", "i", "d", "o", " ", "(", "r",
      "e", "q", "u", "i", "e", "r", "e", " ", "1", "-", "2", "0", " ", "p", "a", "l", "a",
      "b", "r", "a", "s", ")", ":", " ">>

\* "Punto 1 de la agenda"
PH_Punto1 ==
    <<"P", "u", "n", "t", "o", " ", "1", " ", "d", "e", " ", "l", "a", " ", "a", "g", "e",
      "n", "d", "a">>

\* "Punto 2 de la agenda"
PH_Punto2 ==
    <<"P", "u", "n", "t", "o", " ", "2", " ", "d", "e", " ", "l", "a", " ", "a", "g", "e",
      "n", "d", "a">>

Q1 == <<"Q", "1">>
Q2 == <<"Q", "2">>
Q3 == <<"Q", "3">>
Q4 == <<"Q", "4">>

\* ["Q1", "Q2", "Q3", "Q4"]
QuarterTokens == {Q1, Q2, Q3, Q4}

\* os.getenv("LEADER_ID"): some non-empty text
LeaderId == <<"7", "7">>

\* The fixed agenda sent when the conversation has none.
PlaceholderAgenda == <<PH_Punto1, PH_Punto2>>

\* if len(points) > 10
MaxPoints == 10

\* if 1 <= word_count <= 20
MaxWords == 20

----------------------------------------------------------------------------
(* The conversation record and the outbound messages.                      *)

\* The default passed to conversation_data.get; the key modification_type
\* is absent from it, which None stands for.
DefaultRecord ==
    [ quarter               |-> None,
      state                 |-> "initial",
      next_meeting_agenda   |-> None,
      session_content       |-> None,
      agenda_change_history |-> <<>>,
      modification_type     |-> None ]

\* Python truthiness of an optional list: None and [] are falsy.
Truthy(opt) == opt # None /\ opt[1] # <<>>

\* conv_data.get("next_meeting_agenda", []) read as a list
ListOf(opt) == IF opt = None THEN <<>> ELSE opt[1]

\* turn_context.send_activity(text)
Msg(t) == [text |-> t, actions |-> <<>>, items |-> <<>>]

\* a message whose text embeds values (an f-string): the values are kept in items
MsgOf(t, items) == [text |-> t, actions |-> <<>>, items |-> items]

\* MessageFactory.suggested_actions(actions, text)
Choices(t, acts) == [text |-> t, actions |-> acts, items |-> <<>>]

QuarterPrompt ==
    << Msg("¡Genial! Para el reporte, ¿qué trimestre desea usar?"),
       Choices("Por favor, selecciona un trimestre:", <<Q1, Q2, Q3, Q4>>) >>

\* The menu of the two presentation choices.
PresentationMenu(prompt) == Choices(prompt, <<T_GenerarPresentacion, T_RevisarAgenda>>)

\* The menu chosen by the JUNTA flag.
InitialMenu(prompt) ==
    IF junta_enabled
    THEN Choices(prompt, <<T_RevisarContenido>>)
    ELSE PresentationMenu(prompt)

RetryMenu ==
    Choices("Por favor, selecciona una opción:", <<T_Reintentar, T_VolverAlInicio>>)

QuarterReprompt == Msg("Por favor, selecciona un trimestre válido (Q1, Q2, Q3 o Q4).")

GenerationFailed == Msg("Error al generar la presentación. La agenda no se guardó.")

\* What a turn produces: the record to persist, the messages sent, the
\* report-generation requests issued, the share downloads made with their
\* outcomes, the agenda file afterwards, the outcome of the generation call
\* ("none" when there was no call) and whether the handler raised.
Result(c, sent) ==
    [ conv       |-> c,
      sent       |-> sent,
      requests   |-> <<>>,
      lookups    |-> <<>>,
      file       |-> agenda_file,
      generation |-> "none",
      raised     |-> FALSE ]

----------------------------------------------------------------------------
(* Outcomes of the external calls of one turn.                             *)

\* A share download succeeds, fails with ResourceNotFound, delivers a file
\* that is malformed (content that does not parse, a meeting without its
\* start), or fails otherwise.  Only ResourceNotFound puts that word into
\* the text of the exception.
DownloadOutcomes == {"ok", "ResourceNotFound", "Malformed", "Other"}

\* The report-generation POST answers 200, another status, or raises.
FunctionOutcomes == {"200", "non200", "exception"}

UploadOutcomes == {"ok", "failed"}

\* The text of test_processed.txt.
SessionContent == <<"s">>

\* dl1: the first download of the turn (the session content, or agenda.json
\* read by get_next_meeting_agenda); fn: the generation call; dl2, up: the
\* download and the upload of save_agenda_to_share.
Envs ==
    [dl1 : DownloadOutcomes, fn : FunctionOutcomes, dl2 : DownloadOutcomes,
     up : UploadOutcomes]

AllGood == [dl1 |-> "ok", fn |-> "200", dl2 |-> "ok", up |-> "ok"]

----------------------------------------------------------------------------
(* The helpers of ReportBot.                                               *)

\* Indexes of the meetings that start after t.
FutureMeetings(meetings, t) == {i \in 1..Len(meetings) : meetings[i].start > t}

\* min(future_meetings, key=start): the first meeting with the earliest start
NextMeeting(meetings, t) ==
    LET future == FutureMeetings(meetings, t)
    IN  Min({i \in future : \A j \in future : meetings[i].start <= meetings[j].start})

\* Mutant: a meeting that starts at the current time counts as a future one.
get_next_meeting_agenda_NotStrictlyLater(outcome) ==
    LET look == <<[file |-> "agenda.json", by |-> "get_next_meeting_agenda",
                   outcome |-> outcome]>>
        Answer(agenda, sent) == [agenda |-> agenda, sent |-> sent, lookups |-> look]
    IN  IF outcome = "ResourceNotFound"
        THEN Answer(<<>>, <<Msg("No se encontró el archivo de agenda en Azure File Storage. Contacta al administrador.")>>)
        ELSE IF outcome # "ok"
        THEN Answer(<<>>, <<Msg("Error al leer la agenda: {error_msg}.")>>)
        ELSE IF agenda_file = <<>>
        THEN Answer(<<>>, <<Msg("No hay reuniones programadas en la agenda.")>>)
        ELSE IF FutureMeetings(agenda_file, now - 1) = {}
        THEN Answer(<<>>, <<Msg("No hay reuniones futuras en la agenda.")>>)
        ELSE Answer(agenda_file[NextMeeting(agenda_file, now - 1)].agenda, <<>>)

get_next_meeting_agenda(outcome) ==
    LET look == <<[file |-> "agenda.json", by |-> "get_next_meeting_agenda",
                   outcome |-> outcome]>>
        Answer(agenda, sent) == [agenda |-> agenda, sent |-> sent, lookups |-> look]
    IN  IF outcome = "ResourceNotFound"
        THEN Answer(<<>>, <<Msg("No se encontró el archivo de agenda en Azure File Storage. Contacta al administrador.")>>)
        ELSE IF outcome # "ok"
        THEN Answer(<<>>, <<Msg("Error al leer la agenda: {error_msg}.")>>)
        ELSE IF agenda_file = <<>>
        THEN Answer(<<>>, <<Msg("No hay reuniones programadas en la agenda.")>>)
        ELSE IF FutureMeetings(agenda_file, now) = {}
        THEN Answer(<<>>, <<Msg("No hay reuniones futuras en la agenda.")>>)
        ELSE Answer(agenda_file[NextMeeting(agenda_file, now)].agenda, <<>>)

\* One point of the input: kept capitalised, or turned into an error text.
ValidatePoint(point) ==
    LET word_count == WordCount(point)
        has_valid_content == \E i \in 1..Len(point) : IsAlpha(point[i])
    IN  IF 1 <= word_count /\ word_count <= MaxWords /\ has_valid_content
        THEN <<UpperChar(point[1])>> \o Tail(point)
        ELSE IF ~has_valid_content
        THEN E_DebeContenerLetras \o point
        ELSE E_RequierePalabras \o point

\* Mutant: the check for an empty input is missing.
generate_agenda_points_NoEmptyCheck(user_input) ==
    LET pieces == IF Contains(user_input, "\n")
                  THEN Split(user_input, "\n")
                  ELSE Split(user_input, ",")
        points == StrippedNonEmpty(pieces)
    IN  IF Len(points) > MaxPoints
        THEN <<E_DemasiadosPuntos>>
        ELSE LET valid_points ==
                     IF points = <<>> THEN <<>>
                     ELSE [i \in 1..Len(points) |-> ValidatePoint(points[i])]
             IN  IF valid_points = <<>>
                 THEN <<E_SinPuntosValidos>>
                 ELSE valid_points

\* Mutant: the number of points is not limited.
generate_agenda_points_NoLimit(user_input) ==
    IF Strip(user_input) = <<>>
    THEN <<E_EntradaVacia>>
    ELSE LET pieces == IF Contains(user_input, "\n")
                       THEN Split(user_input, "\n")
                       ELSE Split(user_input, ",")
             points == StrippedNonEmpty(pieces)
             valid_points ==
                 IF points = <<>> THEN <<>>
                 ELSE [i \in 1..Len(points) |-> ValidatePoint(points[i])]
         IN  IF valid_points = <<>>
             THEN <<E_SinPuntosValidos>>
             ELSE valid_points

\* Mutant: the lines of a multi-line input are kept untrimmed.
generate_agenda_points_LinesUntrimmed(user_input) ==
    IF Strip(user_input) = <<>>
    THEN <<E_EntradaVacia>>
    ELSE LET NotBlank(p) == Strip(p) # <<>>
             points == IF Contains(user_input, "\n")
                       THEN SelectSeq(Split(user_input, "\n"), NotBlank)
                       ELSE StrippedNonEmpty(Split(user_input, ","))
         IN  IF Len(points) > MaxPoints
             THEN <<E_DemasiadosPuntos>>
             ELSE LET valid_points ==
                          IF points = <<>> THEN <<>>
                          ELSE [i \in 1..Len(points) |-> ValidatePoint(points[i])]
                  IN  IF valid_points = <<>>
                      THEN <<E_SinPuntosValidos>>
                      ELSE valid_points

generate_agenda_points(user_input) ==
    IF Strip(user_input) = <<>>
    THEN <<E_EntradaVacia>>
    ELSE LET pieces == IF Contains(user_input, "\n")
                       THEN Split(user_input, "\n")
                       ELSE Split(user_input, ",")
             points == StrippedNonEmpty(pieces)
         IN  IF Len(points) > MaxPoints
             THEN <<E_DemasiadosPuntos>>
             ELSE LET valid_points ==
                          IF points = <<>> THEN <<>>
                          ELSE [i \in 1..Len(points) |-> ValidatePoint(points[i])]
                  IN  IF valid_points = <<>>
                      THEN <<E_SinPuntosValidos>>
                      ELSE valid_points

\* The points the handler treats as error texts.
IsErrorText(p) ==
    \/ StartsWith(p, P_PuntoInvalido)
    \/ StartsWith(p, P_DemasiadosPuntos)
    \/ StartsWith(p, P_LaEntradaNoPuede)

InvalidPoints(new_points) == SelectSeq(new_points, IsErrorText)

save_agenda_to_share(agenda, download, upload) ==
    LET look == <<[file |-> "agenda.json", by |-> "save_agenda_to_share",
                   outcome |-> download]>>
        Answer(file, sent) == [file |-> file, sent |-> sent, lookups |-> look]
    IN  IF download # "ok"
        THEN Answer(agenda_file, <<Msg("Error al guardar la agenda: {error_msg}.")>>)
        ELSE IF agenda_file = <<>>
        THEN Answer(agenda_file, <<Msg("No hay reuniones programadas para actualizar.")>>)
        ELSE IF FutureMeetings(agenda_file, now) = {}
        THEN Answer(agenda_file, <<Msg("No hay reuniones futuras para actualizar.")>>)
        ELSE IF upload # "ok"
        THEN Answer(agenda_file, <<Msg("Error al guardar la agenda: {error_msg}.")>>)
        ELSE Answer([agenda_file EXCEPT ![NextMeeting(agenda_file, now)].agenda = agenda],
                    <<>>)

\* The spreadsheet is downloaded as text and then indexed as a table, which
\* raises; the except clause returns [] in every case and sends nothing.
get_new_team_members ==
    [ members |-> <<>>,
      sent    |-> <<>>,
      lookups |-> <<[file |-> "Tabla_de_Usuarios_Actualizada.xlsx",
                     by |-> "get_new_team_members", outcome |-> "Other"]>> ]

\* Mutant: a missing agenda is sent as an empty list, without the placeholder.
call_azure_function_NoPlaceholder(quarter, leader_id, agenda, new_members, outcome) ==
    LET payload == [ q               |-> quarter,
                     matricula_lider |-> leader_id,
                     agenda          |-> IF Truthy(agenda) THEN agenda[1] ELSE <<>>,
                     nuevos_miembros |-> new_members ]
    IN  [ payload |-> payload,
          success |-> outcome = "200",
          sent    |-> IF outcome = "200"
                      THEN <<MsgOf("¡Tu reporte está listo!", <<ListOf(quarter), leader_id>>)>>
                      ELSE IF outcome = "non200"
                      THEN <<Msg("Lo siento, ocurrió un error al generar tu reporte.")>>
                      ELSE <<Msg("Ocurrió un error inesperado: {e}")>> ]

call_azure_function(quarter, leader_id, agenda, new_members, outcome) ==
    LET payload == [ q               |-> quarter,
                     matricula_lider |-> leader_id,
                     agenda          |-> IF Truthy(agenda) THEN agenda[1]
                                         ELSE PlaceholderAgenda,
                     nuevos_miembros |-> new_members ]
    IN  [ payload |-> payload,
          success |-> outcome = "200",
          sent    |-> IF outcome = "200"
                      THEN <<MsgOf("¡Tu reporte está listo!", <<ListOf(quarter), leader_id>>)>>
                      ELSE IF outcome = "non200"
                      THEN <<Msg("Lo siento, ocurrió un error al generar tu reporte.")>>
                      ELSE <<Msg("Ocurrió un error inesperado: {e}")>> ]

----------------------------------------------------------------------------
(* on_message_activity, one operator per state of the conversation.        *)

\* Mutant: a failed generation resets the record and shows the start menu.
GenerateReport_ResetOnFailure(c, sent, lookups, env, menu) ==
    LET call == call_azure_function(c.quarter, LeaderId, c.next_meeting_agenda,
                                    get_new_team_members.members, env.fn)
        reset == [c EXCEPT !.quarter = None,
                           !.state = "initial",
                           !.next_meeting_agenda = None,
                           !.agenda_change_history = <<>>]
    IN  [Result(reset, sent \o call.sent \o <<menu>>) EXCEPT
            !.requests = <<call.payload>>,
            !.lookups = get_new_team_members.lookups \o lookups,
            !.generation = IF call.success THEN "success" ELSE "failure"]

\* Mutant: a failed call is repeated once before the turn gives up.
GenerateReport_AutoRetry(c, sent, lookups, env, menu) ==
    LET call == call_azure_function(c.quarter, LeaderId, c.next_meeting_agenda,
                                    get_new_team_members.members, env.fn)
        reset == [c EXCEPT !.quarter = None,
                           !.state = "initial",
                           !.next_meeting_agenda = None,
                           !.agenda_change_history = <<>>]
    IN  IF call.success
        THEN [Result(reset, sent \o call.sent \o <<Msg("Reporte generado."), menu>>)
              EXCEPT !.requests = <<call.payload>>,
                     !.lookups = get_new_team_members.lookups \o lookups,
                     !.generation = "success"]
        ELSE [Result(c, sent \o call.sent \o call.sent \o <<GenerationFailed, RetryMenu>>)
              EXCEPT !.requests = <<call.payload, call.payload>>,
                     !.lookups = get_new_team_members.lookups \o lookups,
                     !.generation = "failure"]

\* The call of the report function and what follows it, shared by the
\* quarter branch and the retry branch: on success the agenda is saved (when
\* there is one) and the record is reset; on failure the retry menu is shown.
\* Mutant: the agenda is saved whether the report call succeeded or not.
GenerateReport_SaveAlways(c, sent, lookups, env, menu) ==
    LET call == call_azure_function(c.quarter, LeaderId, c.next_meeting_agenda,
                                    get_new_team_members.members, env.fn)
        save == save_agenda_to_share(c.next_meeting_agenda[1], env.dl2, env.up)
        base == [Result(c, sent \o get_new_team_members.sent \o call.sent) EXCEPT
                    !.requests = <<call.payload>>,
                    !.lookups = get_new_team_members.lookups \o lookups]
        reset == [c EXCEPT !.quarter = None,
                           !.state = "initial",
                           !.next_meeting_agenda = None,
                           !.agenda_change_history = <<>>]
    IN  IF Truthy(c.next_meeting_agenda)
        THEN [base EXCEPT
                 !.conv = IF call.success THEN reset ELSE c,
                 !.sent = @ \o save.sent
                            \o <<Msg("Reporte generado y agenda actualizada."), menu>>,
                 !.lookups = @ \o save.lookups,
                 !.file = save.file,
                 !.generation = IF call.success THEN "success" ELSE "failure"]
        ELSE [base EXCEPT
                 !.conv = IF call.success THEN reset ELSE c,
                 !.sent = @ \o <<Msg("Reporte generado."), menu>>,
                 !.generation = IF call.success THEN "success" ELSE "failure"]

GenerateReport(c, sent, lookups, env, menu) ==
    LET call == call_azure_function(c.quarter, LeaderId, c.next_meeting_agenda,
                                    get_new_team_members.members, env.fn)
        save == save_agenda_to_share(c.next_meeting_agenda[1], env.dl2, env.up)
        base == [Result(c, sent \o get_new_team_members.sent \o call.sent) EXCEPT
                    !.requests = <<call.payload>>,
                    !.lookups = get_new_team_members.lookups \o lookups]
    IN  IF call.success
        THEN LET reset == [c EXCEPT !.quarter = None,
                                    !.state = "initial",
                                    !.next_meeting_agenda = None,
                                    !.agenda_change_history = <<>>]
             IN  IF Truthy(c.next_meeting_agenda)
                 THEN [base EXCEPT
                          !.conv = reset,
                          !.sent = @ \o save.sent
                                     \o <<Msg("Reporte generado y agenda actualizada."), menu>>,
                          !.lookups = @ \o save.lookups,
                          !.file = save.file,
                          !.generation = "success"]
                 ELSE [base EXCEPT
                          !.conv = reset,
                          !.sent = @ \o <<Msg("Reporte generado."), menu>>,
                          !.generation = "success"]
        ELSE [base EXCEPT
                 !.sent = @ \o <<GenerationFailed, RetryMenu>>,
                 !.generation = "failure"]

ReviewSessionContent(c, env) ==
    IF env.dl1 = "ok"
    THEN [Result([c EXCEPT !.session_content = Some(SessionContent),
                           !.state = "reviewing_session_content"],
                 << MsgOf("Este es el contenido generado a partir de la transcripción de la reunión:",
                          <<SessionContent>>),
                    Choices("¿Quieres hacer algún cambio?", <<T_Si, T_Proceder>>) >>)
          EXCEPT !.lookups = <<[file |-> "test_processed.txt", by |-> "on_message_activity",
                             outcome |-> env.dl1]>>]
    ELSE [Result(c, IF env.dl1 = "ResourceNotFound"
                    THEN <<Msg("No se encontró el archivo test_processed.txt en Azure File Storage. Contacta al administrador.")>>
                    ELSE <<Msg("Error al leer el contenido: {error_msg}.")>>)
          EXCEPT !.lookups = <<[file |-> "test_processed.txt", by |-> "on_message_activity",
                             outcome |-> env.dl1]>>]

\* Mutant: the agenda is offered for modification even when it is empty.
ReviewAgenda_EmptyAgendaOffered(c, env) ==
    LET got == get_next_meeting_agenda(env.dl1)
    IN  [Result([c EXCEPT !.state = "awaiting_modification_choice",
                          !.next_meeting_agenda = Some(got.agenda)],
                got.sent \o
                << MsgOf("Agenda actual de la próxima reunión:", got.agenda),
                   Msg("¿Deseas hacer modificaciones a esta agenda?"),
                   Choices("Selecciona una opción:",
                           <<T_RealizarModificaciones, T_GenerarPresentacion>>) >>)
         EXCEPT !.lookups = got.lookups]

ReviewAgenda(c, env) ==
    LET got == get_next_meeting_agenda(env.dl1)
    IN  IF got.agenda # <<>>
        THEN [Result([c EXCEPT !.state = "awaiting_modification_choice",
                               !.next_meeting_agenda = Some(got.agenda)],
                     got.sent \o
                     << MsgOf("Agenda actual de la próxima reunión:", got.agenda),
                        Msg("¿Deseas hacer modificaciones a esta agenda?"),
                        Choices("Selecciona una opción:",
                                <<T_RealizarModificaciones, T_GenerarPresentacion>>) >>)
              EXCEPT !.lookups = got.lookups]
        ELSE [Result(c, got.sent) EXCEPT !.lookups = got.lookups]

\* Mutant: the start menu takes every choice whatever the JUNTA flag is.
HandleInitial_FlagIgnored(c, text, env) ==
    IF text = T_RevisarContenido
    THEN ReviewSessionContent(c, env)
    ELSE IF text = T_GenerarPresentacion
    THEN Result([c EXCEPT !.state = "selecting_quarter"], QuarterPrompt)
    ELSE IF text = T_RevisarAgenda
    THEN ReviewAgenda(c, env)
    ELSE Result(c, <<Msg("Por favor, selecciona una opción válida.")>>)

HandleInitial(c, text, env) ==
    IF junta_enabled /\ text = T_RevisarContenido
    THEN ReviewSessionContent(c, env)
    ELSE IF ~junta_enabled
    THEN IF text = T_GenerarPresentacion
         THEN Result([c EXCEPT !.state = "selecting_quarter"], QuarterPrompt)
         ELSE IF text = T_RevisarAgenda
         THEN ReviewAgenda(c, env)
         ELSE Result(c, <<Msg("Por favor, selecciona una opción válida: 'Generar la presentación' o 'Revisar agenda'.")>>)
    ELSE Result(c, <<Msg("Por favor, selecciona una opción válida.")>>)

HandleAwaitingModificationChoice(c, text) ==
    IF text = T_GenerarPresentacion
    THEN Result([c EXCEPT !.state = "selecting_quarter"], QuarterPrompt)
    ELSE IF text = T_RealizarModificaciones
    THEN Result([c EXCEPT !.state = "modifying_agenda"],
                << Msg("Qué cambios quieres hacer? Selecciona una opción:"),
                   Choices("Selecciona una opción:", <<T_Reescribir, T_Mantener>>) >>)
    ELSE Result(c, <<Msg("Por favor, selecciona una opción válida: 'Realizar modificaciones' o 'Generar la presentación'.")>>)

\* Mutant: in modifying_agenda any text moves on to the input of the points.
HandleModifyingAgenda_AnyTextAdvances(c, text) ==
    Result([c EXCEPT !.modification_type = Some(text),
                     !.state = "awaiting_agenda_input"],
           <<Msg("Por favor, ingresa los puntos de la agenda, uno por línea o separados por comas. Cada punto debe tener entre 1 y 20 palabras y contener letras. Ejemplo: 'Discutir metas del equipo, Revisar presupuesto trimestral'.")>>)

HandleModifyingAgenda(c, text) ==
    IF text \in {T_Reescribir, T_Mantener}
    THEN Result([c EXCEPT !.modification_type = Some(text),
                          !.state = "awaiting_agenda_input"],
                <<Msg("Por favor, ingresa los puntos de la agenda, uno por línea o separados por comas. Cada punto debe tener entre 1 y 20 palabras y contener letras. Ejemplo: 'Discutir metas del equipo, Revisar presupuesto trimestral'.")>>)
    ELSE Result(c, <<Msg("Por favor, selecciona una opción válida: 'Reescribir toda la agenda' o 'Mantener los puntos anteriores y agregar nuevos'.")>>)

\* Mutant: the change entry does not keep the agenda that was reviewed.
HandleAwaitingAgendaInput_ReviewedLost(c, text) ==
    LET new_points == generate_agenda_points(text)
        invalid_points == InvalidPoints(new_points)
    IN  IF invalid_points # <<>>
        THEN Result(c, <<MsgOf("Algunos puntos no cumplen los requisitos:", invalid_points)>>)
        ELSE IF c.next_meeting_agenda = None \/ c.modification_type = None
        THEN [Result(c, <<>>) EXCEPT !.raised = TRUE]
        ELSE LET old_agenda == c.next_meeting_agenda[1]
                 rewrite == c.modification_type = Some(T_Reescribir)
                 new_agenda == IF rewrite THEN new_points ELSE old_agenda \o new_points
                 change_entry ==
                     [ timestamp         |-> now,
                       modification_type |-> IF rewrite THEN "rewrite" ELSE "append",
                       old_agenda        |-> new_agenda,
                       new_agenda        |-> new_agenda,
                       added_points      |-> IF rewrite THEN <<>> ELSE new_points ]
             IN  Result([c EXCEPT
                            !.agenda_change_history = Append(@, change_entry),
                            !.next_meeting_agenda = Some(new_agenda),
                            !.state = "confirming_agenda_changes"],
                        << MsgOf("Así luciría la nueva agenda:", new_agenda),
                           Msg("¿Confirmas estos cambios?"),
                           Choices("Selecciona una opción:", <<T_Confirmar, T_Descartar>>) >>)

\* Mutant: the new points are appended whatever modification was chosen.
HandleAwaitingAgendaInput_AlwaysAppend(c, text) ==
    LET new_points == generate_agenda_points(text)
        invalid_points == InvalidPoints(new_points)
    IN  IF invalid_points # <<>>
        THEN Result(c, <<MsgOf("Algunos puntos no cumplen los requisitos:", invalid_points)>>)
        ELSE IF c.next_meeting_agenda = None \/ c.modification_type = None
        THEN [Result(c, <<>>) EXCEPT !.raised = TRUE]
        ELSE LET old_agenda == c.next_meeting_agenda[1]
                 rewrite == c.modification_type = Some(T_Reescribir)
                 new_agenda == old_agenda \o new_points
                 change_entry ==
                     [ timestamp         |-> now,
                       modification_type |-> IF rewrite THEN "rewrite" ELSE "append",
                       old_agenda        |-> old_agenda,
                       new_agenda        |-> new_agenda,
                       added_points      |-> IF rewrite THEN <<>> ELSE new_points ]
             IN  Result([c EXCEPT
                            !.agenda_change_history = Append(@, change_entry),
                            !.next_meeting_agenda = Some(new_agenda),
                            !.state = "confirming_agenda_changes"],
                        << MsgOf("Así luciría la nueva agenda:", new_agenda),
                           Msg("¿Confirmas estos cambios?"),
                           Choices("Selecciona una opción:", <<T_Confirmar, T_Descartar>>) >>)

HandleAwaitingAgendaInput(c, text) ==
    LET new_points == generate_agenda_points(text)
        invalid_points == InvalidPoints(new_points)
    IN  IF invalid_points # <<>>
        THEN Result(c, <<MsgOf("Algunos puntos no cumplen los requisitos:", invalid_points)>>)
        ELSE IF c.next_meeting_agenda = None \/ c.modification_type = None
        THEN \* None.copy() or a missing key: the handler raises
             [Result(c, <<>>) EXCEPT !.raised = TRUE]
        ELSE LET old_agenda == c.next_meeting_agenda[1]
                 rewrite == c.modification_type = Some(T_Reescribir)
                 new_agenda == IF rewrite THEN new_points ELSE old_agenda \o new_points
                 change_entry ==
                     [ timestamp         |-> now,
                       modification_type |-> IF rewrite THEN "rewrite" ELSE "append",
                       old_agenda        |-> old_agenda,
                       new_agenda        |-> new_agenda,
                       added_points      |-> IF rewrite THEN <<>> ELSE new_points ]
             IN  Result([c EXCEPT
                            !.agenda_change_history = Append(@, change_entry),
                            !.next_meeting_agenda = Some(new_agenda),
                            !.state = "confirming_agenda_changes"],
                        << MsgOf("Así luciría la nueva agenda:", new_agenda),
                           Msg("¿Confirmas estos cambios?"),
                           Choices("Selecciona una opción:", <<T_Confirmar, T_Descartar>>) >>)

HandleConfirmingAgendaChanges(c, text) ==
    IF text = T_Confirmar
    THEN Result([c EXCEPT !.state = "selecting_quarter"],
                <<Msg("Cambios confirmados.")>> \o QuarterPrompt)
    ELSE IF text = T_Descartar
    THEN Result([c EXCEPT !.state = "initial",
                          !.next_meeting_agenda = None,
                          !.agenda_change_history = <<>>],
                << Msg("Cambios descartados. Volviendo al menú inicial."),
                   InitialMenu("Por favor, selecciona una opción:") >>)
    ELSE Result(c, <<Msg("Por favor, selecciona una opción válida: 'Confirmar y Generar Presentación' o 'Descartar y volver al inicio'.")>>)

\* text_upper == "REINTENTAR"
Retry(c, env) ==
    IF ~Truthy(c.next_meeting_agenda)
    THEN Result([c EXCEPT !.state = "initial"],
                << Msg("No hay cambios de agenda para reintentar. Por favor, revisa la agenda nuevamente."),
                   PresentationMenu("Por favor, selecciona una opción:") >>)
    ELSE GenerateReport(c,
                        << MsgOf("Reintentando generar el reporte para {quarter}...",
                                 <<ListOf(c.quarter)>>),
                           Msg("Procesando tu reporte, por favor espera...") >>,
                        <<>>, env,
                        PresentationMenu("Por favor, selecciona una opción:"))

\* text_upper == "VOLVER AL INICIO"
ReturnToStart(c) ==
    Result([c EXCEPT !.state = "initial",
                     !.next_meeting_agenda = None,
                     !.agenda_change_history = <<>>],
           << Msg("Volviendo al menú inicial."),
              PresentationMenu("Por favor, selecciona una opción:") >>)

\* text_upper in ["Q1", "Q2", "Q3", "Q4"]
QuarterChosen(c, text_upper, env) ==
    LET chosen == [c EXCEPT !.quarter = Some(text_upper)]
        sent == << MsgOf("¡Genial! Generando tu reporte para {text_upper} con el ID de líder {leader_id}...",
                         <<text_upper, LeaderId>>),
                   Msg("Procesando tu reporte, por favor espera...") >>
        got == get_next_meeting_agenda(env.dl1)
        menu == InitialMenu("¿Qué más puedo hacer por ti?:")
    IN  IF ~Truthy(c.next_meeting_agenda)
        THEN GenerateReport([chosen EXCEPT !.next_meeting_agenda = Some(got.agenda)],
                            sent \o got.sent, got.lookups, env, menu)
        ELSE GenerateReport(chosen, sent, <<>>, env, menu)

\* Mutant: any text that begins with Q is taken for a quarter.
HandleSelectingQuarter_AnyQ(c, text, env) ==
    LET text_upper == Upper(text)
    IN  IF text_upper = U_REINTENTAR
        THEN Retry(c, env)
        ELSE IF text_upper = U_VOLVER_AL_INICIO
        THEN ReturnToStart(c)
        ELSE IF StartsWith(text_upper, <<"Q">>)
        THEN QuarterChosen(c, text_upper, env)
        ELSE Result(c, <<QuarterReprompt>>)

\* Mutant: the text is compared as typed, without upper().
HandleSelectingQuarter_CaseSensitive(c, text, env) ==
    IF text = U_REINTENTAR
    THEN Retry(c, env)
    ELSE IF text = U_VOLVER_AL_INICIO
    THEN ReturnToStart(c)
    ELSE IF text \in QuarterTokens
    THEN QuarterChosen(c, text, env)
    ELSE Result(c, <<QuarterReprompt>>)

HandleSelectingQuarter(c, text, env) ==
    LET text_upper == Upper(text)
    IN  IF text_upper = U_REINTENTAR
        THEN Retry(c, env)
        ELSE IF text_upper = U_VOLVER_AL_INICIO
        THEN ReturnToStart(c)
        ELSE IF text_upper \in QuarterTokens
        THEN QuarterChosen(c, text_upper, env)
        ELSE Result(c, <<QuarterReprompt>>)

\* The handler on the record c, the activity's text and the outcomes of the
\* external calls the turn makes.
on_message_activity(c, activity_text, env) ==
    LET text == Strip(activity_text)
    IN  CASE c.state = "initial" -> HandleInitial(c, text, env)
          [] c.state = "awaiting_modification_choice" ->
                 HandleAwaitingModificationChoice(c, text)
          [] c.state = "modifying_agenda" -> HandleModifyingAgenda(c, text)
          [] c.state = "awaiting_agenda_input" -> HandleAwaitingAgendaInput(c, text)
          [] c.state = "confirming_agenda_changes" ->
                 HandleConfirmingAgendaChanges(c, text)
          [] c.state = "selecting_quarter" -> HandleSelectingQuarter(c, text, env)
          [] OTHER ->
                 Result(c, <<Msg("No entendí eso. Por favor selecciona una opción o sigue el flujo.")>>)

----------------------------------------------------------------------------
(* The inputs: the texts a user sends and the agenda files on the share.   *)

RECURSIVE Repeat(_, _, _)
\* k copies of unit joined by sep
Repeat(unit, sep, k) == IF k <= 1 THEN unit ELSE unit \o sep \o Repeat(unit, sep, k - 1)

\* The first character replaced by its lower-case form given as c.
LowerFirst(c, s) == <<c>> \o Tail(s)

\* The choices the bot offers in each state of the conversation.
MenuTexts(state) ==
    CASE state = "initial" ->
             {T_RevisarContenido, T_GenerarPresentacion, T_RevisarAgenda}
      [] state = "awaiting_modification_choice" ->
             {T_RealizarModificaciones, T_GenerarPresentacion}
      [] state = "modifying_agenda" -> {T_Reescribir, T_Mantener}
      [] state = "confirming_agenda_changes" -> {T_Confirmar, T_Descartar}
      [] state = "selecting_quarter" ->
             {T_Reintentar, T_VolverAlInicio, T_GenerarPresentacion}
      [] OTHER -> {T_Si, T_Proceder}

\* Other spellings of the two choices of the retry menu.
RetrySpellings == {LowerFirst("r", T_Reintentar), U_VOLVER_AL_INICIO}

\* Quarter tokens in both cases and with white space around, and near misses.
QuarterTexts ==
    {Q1, <<"q", "2">>, <<" ", "q", "4", "\n">>, <<"Q", "5">>, <<"Q", " ", "1">>}

FreeAlphabet == {"a", "1", ",", " ", "\n"}

\* Every text of at most MaxLen characters over FreeAlphabet, the empty one included.
FreeTexts == UNION {[1..n -> FreeAlphabet] : n \in 0..MaxLen}

\* Agenda inputs at the limits of the validation, and inputs that begin like
\* the handler's own error texts.
AgendaTexts ==
    { Repeat(<<"a">>, <<" ">>, MaxWords), Repeat(<<"a">>, <<" ">>, MaxWords + 1),
      Repeat(<<"a">>, <<",">>, MaxPoints), Repeat(<<"a">>, <<",">>, MaxPoints + 1),
      <<"a", ",", "1">>, <<"a", ",", ",", "b">>, <<"a", "\n", "b">>, <<"b", ",", "c">>,
      LowerFirst("d", P_DemasiadosPuntos), LowerFirst("p", P_PuntoInvalido),
      LowerFirst("l", P_LaEntradaNoPuede) }

\* A text no branch of the handler knows.
Hola == <<"h", "o", "l", "a">>

\* Texts that are no choice of the state they are sent in: a text no branch
\* knows, a quarter token and the retry choice.
OffMenu == {Hola, Q1, T_Reintentar}

\* The texts tried in each state of the conversation: the choices offered
\* there and texts off the menu; the quarter tokens and retry spellings
\* where a quarter is awaited, the free texts where an agenda is awaited.
TextsFor(state) ==
    CASE state = "awaiting_agenda_input" ->
             FreeTexts \cup AgendaTexts \cup {T_Descartar}
      [] state = "selecting_quarter" ->
             MenuTexts(state) \cup RetrySpellings \cup QuarterTexts \cup {Hola}
      [] OTHER -> MenuTexts(state) \cup OffMenu

\* agenda.json: the meetings, each with its start and its agenda.
Meeting(subject, start, agenda) ==
    [subject |-> subject, start |-> start, agenda |-> agenda]

AgendaFiles ==
    { <<>>,
      << Meeting("m0", 0, <<<<"W">>>>), Meeting("m1", 1, <<>>) >>,
      << Meeting("m0", 0, <<<<"W">>>>), Meeting("m1", 1, <<<<"X">>>>),
         Meeting("m2", 2, <<<<"Y">>, <<"Z">>>>) >> }

\* The outcomes of the external calls a turn makes; the outcome of a call
\* the turn does not make is left at "ok" (it is never read).  A download
\* is made by "Revisar contenido de la sesión" and "Revisar agenda" in state
\* initial and, in selecting_quarter, by a quarter token when the record has
\* no agenda; the report function is called for a quarter token or a retry;
\* the agenda is saved (download, then upload) only after a success.
ExternalOutcomes(c, activity_text) ==
    LET text == Strip(activity_text)
    IN  IF c.state = "initial" /\ text \in {T_RevisarContenido, T_RevisarAgenda}
        THEN {[AllGood EXCEPT !.dl1 = d] : d \in DownloadOutcomes}
        ELSE IF c.state = "selecting_quarter"
                /\ Upper(text) \in QuarterTokens \cup {U_REINTENTAR}
        THEN {e \in Envs :
                /\ (Truthy(c.next_meeting_agenda) \/ Upper(text) = U_REINTENTAR)
                      => e.dl1 = "ok"
                /\ e.fn # "200" => (e.dl2 = "ok" /\ e.up = "ok")
                /\ e.dl2 # "ok" => e.up = "ok"}
        ELSE {AllGood}

----------------------------------------------------------------------------
(* The state machine.                                                      *)

NoTurn ==
    [ activity   |-> "none",
      text       |-> <<>>,
      before     |-> DefaultRecord,
      sent       |-> <<>>,
      requests   |-> <<>>,
      lookups    |-> <<>>,
      generation |-> "none",
      raised     |-> FALSE,
      previous   |-> [generation |-> "none", requests |-> <<>>] ]

Init ==
    /\ conv_data = DefaultRecord
    /\ agenda_file \in AgendaFiles
    /\ now = 0
    /\ junta_enabled \in BOOLEAN
    /\ turn = NoTurn
    /\ turns = 0
    /\ conv_other = DefaultRecord
    /\ inflight = <<>>
    /\ submitted = <<>>
    /\ validated = None

\* A message activity: the record is read, the handler runs, and the record
\* is written back by save_changes unless the handler raised.  turn keeps
\* what the activity did, and in previous the generation call of the
\* activity before it.
OnMessageActivity ==
    /\ turns < MaxTurns
    /\ \E activity_text \in TextsFor(conv_data.state) :
         \E env \in ExternalOutcomes(conv_data, activity_text) :
            \E r \in {on_message_activity(conv_data, activity_text, env)} :
                /\ conv_data' = IF r.raised THEN conv_data ELSE r.conv
                /\ agenda_file' = r.file
                /\ turn' = [ activity   |-> "message",
                             text       |-> activity_text,
                             before     |-> conv_data,
                             sent       |-> r.sent,
                             requests   |-> r.requests,
                             lookups    |-> r.lookups,
                             generation |-> r.generation,
                             raised     |-> r.raised,
                             previous   |-> [ generation |-> turn.generation,
                                              requests   |-> turn.requests ] ]
    /\ turns' = turns + 1
    /\ UNCHANGED <<now, junta_enabled, conv_other, inflight, submitted, validated>>

\* A member joins: the greeting and the menu are sent, the record is not read.
OnMembersAddedActivity ==
    /\ turns < MaxTurns
    /\ turn' = [NoTurn EXCEPT
                   !.activity = "members_added",
                   !.before = conv_data,
                   !.previous = [generation |-> turn.generation,
                                 requests |-> turn.requests],
                   !.sent = << Msg("¡Hola! ¿Qué te gustaría hacer hoy?"),
                               InitialMenu("Por favor, selecciona una opción:") >>]
    /\ turns' = turns + 1
    /\ UNCHANGED <<conv_data, agenda_file, now, junta_enabled, conv_other, inflight,
                   submitted, validated>>

\* Time passes between two activities.
Tick ==
    /\ now < MaxTime
    /\ now' = now + 1
    /\ UNCHANGED <<conv_data, agenda_file, junta_enabled, turn, turns, conv_other,
                   inflight, submitted, validated>>

Next == OnMessageActivity \/ OnMembersAddedActivity \/ Tick

Spec == Init /\ [][Next]_vars

TypeOK ==
    /\ conv_data.state \in
          { "initial", "selecting_quarter", "awaiting_modification_choice",
            "modifying_agenda", "awaiting_agenda_input", "confirming_agenda_changes",
            "reviewing_session_content" }
    /\ turns \in 0..MaxTurns
    /\ now \in 0..MaxTime

----------------------------------------------------------------------------
(* SpecPoints: generate_agenda_points on lists of agenda items, submitted  *)
(* once separated by commas and once one per line.                         *)

RECURSIVE Join(_, _)
\* sep.join(xs)
Join(xs, sep) ==
    IF xs = <<>> THEN <<>>
    ELSE IF Len(xs) = 1 THEN xs[1]
    ELSE xs[1] \o sep \o Join(Tail(xs), sep)

\* Agenda items: a word, a number, two words, a word with blanks around it,
\* and an item with a comma inside.
ItemTexts ==
    { <<"a">>, <<"1">>, <<"b", " ", "c">>, <<" ", "a", " ">>, <<"a", ",", "b">> }

\* The lists of at most MaxItems items.
ItemLists == UNION {[1..n -> ItemTexts] : n \in 0..MaxItems}

InitPoints ==
    /\ conv_data = DefaultRecord
    /\ agenda_file = <<>>
    /\ now = 0
    /\ junta_enabled = FALSE
    /\ turn = NoTurn
    /\ turns = 0
    /\ conv_other = DefaultRecord
    /\ inflight = <<>>
    /\ submitted \in ItemLists
    /\ validated = None

\* The items are submitted in both forms.
GenerateAgendaPoints ==
    /\ validated = None
    /\ validated' = Some([ comma   |-> generate_agenda_points(Join(submitted, <<",">>)),
                           newline |-> generate_agenda_points(Join(submitted, <<"\n">>)) ])
    /\ UNCHANGED <<conv_data, agenda_file, now, junta_enabled, turn, turns, conv_other,
                   inflight, submitted>>

NextPoints == GenerateAgendaPoints

SpecPoints == InitPoints /\ [][NextPoints]_vars

----------------------------------------------------------------------------
(* SpecLookup: get_next_meeting_agenda on files whose meetings come in any *)
(* order, with equal starts, with starts before, at and after the current  *)
(* time, and with or without agenda points.                                *)

\* The meetings a file may list.
MeetingsOfFile ==
    { Meeting("m", start, agenda) :
         start \in 0..(MaxTime + 1),
         agenda \in {<<>>, << <<"X">> >>, << <<"Y">> >>} }

\* The files of at most MaxMeetings meetings.
MeetingLists == UNION {[1..n -> MeetingsOfFile] : n \in 0..MaxMeetings}

InitLookup ==
    /\ conv_data = DefaultRecord
    /\ agenda_file \in MeetingLists
    /\ now \in 0..(MaxTime + 1)
    /\ junta_enabled = FALSE
    /\ turn = NoTurn
    /\ turns = 0
    /\ conv_other = DefaultRecord
    /\ inflight = <<>>
    /\ submitted = <<>>
    /\ validated = None

\* The lookup is made; the turn keeps what it returned and sent.
GetNextMeetingAgenda ==
    /\ turn = NoTurn
    /\ \E outcome \in DownloadOutcomes :
          LET got == get_next_meeting_agenda(outcome)
          IN  turn' = [ activity |-> "lookup",
                        outcome  |-> outcome,
                        agenda   |-> got.agenda,
                        sent     |-> got.sent,
                        lookups  |-> got.lookups ]
    /\ UNCHANGED <<conv_data, agenda_file, now, junta_enabled, turns, conv_other,
                   inflight, submitted, validated>>

NextLookup == GetNextMeetingAgenda

SpecLookup == InitLookup /\ [][NextLookup]_vars

----------------------------------------------------------------------------
(* SpecTwo: two conversations served by the same bot.  Each has its own    *)
(* record in the storage; agenda.json on the share is the same file.       *)

\* What a conversation with the record c gets for its next message: for
\* "Revisar agenda" and for a quarter, the record, the messages and the
\* requests that the handler gives when every external call succeeds.
Observes(c) ==
    [text \in {T_RevisarAgenda, Q1} |->
        LET r == on_message_activity(c, text, AllGood)
        IN  [conv |-> r.conv, sent |-> r.sent, requests |-> r.requests]]

\* A message of conversation k (1: conv_data, 2: conv_other) is handled.
\* The turn keeps, for observation, the record of the other conversation and
\* what that conversation would have got just before this message.
MessageOf(k) ==
    LET record == IF k = 1 THEN conv_data ELSE conv_other
        other == IF k = 1 THEN conv_other ELSE conv_data
    IN  /\ turns < MaxTurnsTwo
        /\ \E activity_text \in TextsFor(record.state) :
             \E env \in ExternalOutcomes(record, activity_text) :
                \E r \in {on_message_activity(record, activity_text, env)} :
                    /\ conv_data' = IF k = 1 /\ ~r.raised THEN r.conv ELSE conv_data
                    /\ conv_other' = IF k = 2 /\ ~r.raised THEN r.conv ELSE conv_other
                    /\ agenda_file' = r.file
                    /\ turn' = [ conversation |-> k,
                                 at         |-> now,
                                 other      |-> other,
                                 observed   |-> Observes(other),
                                 activity   |-> "message",
                                 text       |-> activity_text,
                                 before     |-> record,
                                 sent       |-> r.sent,
                                 requests   |-> r.requests,
                                 lookups    |-> r.lookups,
                                 generation |-> r.generation,
                                 raised     |-> r.raised,
                                 previous   |-> [ generation |-> turn.generation,
                                                  requests   |-> turn.requests ] ]
        /\ turns' = turns + 1
        /\ UNCHANGED <<now, junta_enabled, inflight, submitted, validated>>

NextTwo == (\E k \in {1, 2} : MessageOf(k)) \/ Tick

SpecTwo == Init /\ [][NextTwo]_vars

----------------------------------------------------------------------------
(* SpecAsync: the messages of one conversation as the web server handles   *)
(* them.  Each POST to /api/messages runs as a task of its own; a handler  *)
(* gives up control at every await (sending a message, a download, the     *)
(* report call), and nothing holds the next POST back meanwhile.           *)

\* A message arrives and its handler starts: it reads the record.
BeginMessage ==
    /\ turns < MaxTurnsAsync
    /\ Len(inflight) < MaxInflight
    /\ \E activity_text \in TextsFor(conv_data.state) :
          inflight' = Append(inflight, [text |-> activity_text, record |-> conv_data])
    /\ turns' = turns + 1
    /\ UNCHANGED <<conv_data, agenda_file, now, junta_enabled, turn, conv_other,
                   submitted, validated>>

\* A handler under way runs to its end and the record is written back.  It
\* has worked on the record it read, or on the record as it is now when the
\* storage hands out the stored object itself.
FinishMessage ==
    \E i \in 1..Len(inflight) :
       \E record \in {inflight[i].record, conv_data} :
          \E env \in ExternalOutcomes(record, inflight[i].text) :
             \E r \in {on_message_activity(record, inflight[i].text, env)} :
                /\ conv_data' = IF r.raised THEN conv_data ELSE r.conv
                /\ agenda_file' = r.file
                /\ turn' = [ activity   |-> "message",
                             text       |-> inflight[i].text,
                             before     |-> record,
                             sent       |-> r.sent,
                             requests   |-> r.requests,
                             lookups    |-> r.lookups,
                             generation |-> r.generation,
                             raised     |-> r.raised,
                             previous   |-> [ generation |-> turn.generation,
                                              requests   |-> turn.requests ] ]
                /\ inflight' = [j \in 1..(Len(inflight) - 1) |->
                                    IF j < i THEN inflight[j] ELSE inflight[j + 1]]
                /\ UNCHANGED <<now, junta_enabled, turns, conv_other, submitted, validated>>

NextAsync == BeginMessage \/ FinishMessage

SpecAsync == Init /\ [][NextAsync]_vars

----------------------------------------------------------------------------
(* The properties checked, by claim.                                       *)

\* The last activity was a message.
Handled == turn.activity = "message"

\* The text the handler works on: text = turn_context.activity.text.strip()
TurnText == Strip(turn.text)

\* The last activity sent the message m.
Sent(m) == \E i \in 1..Len(turn.sent) : turn.sent[i] = m

\* The last activity sent a message with the text t.
SentText(t) == \E i \in 1..Len(turn.sent) : turn.sent[i].text = t

FourQuarters == {<<"Q", "1">>, <<"Q", "2">>, <<"Q", "3">>, <<"Q", "4">>}

InSelectingQuarter == Handled /\ turn.before.state = "selecting_quarter"

InAwaitingAgendaInput == Handled /\ turn.before.state = "awaiting_agenda_input"

\* C1 as stated: in selecting_quarter every text whose trimmed, upper-cased
\* form is not Q1..Q4 leaves the state selecting_quarter and is answered
\* with the re-prompt for a valid quarter.
C1_AnyNonQuarterReprompts ==
    (InSelectingQuarter /\ Upper(TurnText) \notin FourQuarters)
        => (conv_data.state = "selecting_quarter" /\ Sent(QuarterReprompt))

\* C1 amended: in selecting_quarter every text whose trimmed, upper-cased
\* form is none of Q1..Q4, REINTENTAR and VOLVER AL INICIO leaves the record
\* as it was, state selecting_quarter included, and is answered with exactly
\* the re-prompt for a valid quarter.
C1_OtherTextReprompts ==
    (InSelectingQuarter
        /\ Upper(TurnText) \notin FourQuarters \cup {U_REINTENTAR, U_VOLVER_AL_INICIO})
        => /\ conv_data = turn.before
           /\ conv_data.state = "selecting_quarter"
           /\ turn.sent = <<QuarterReprompt>>
           /\ turn.requests = <<>>

\* C1 witness: "Q5" was sent in selecting_quarter and re-prompted.
C1_Witness ==
    /\ InSelectingQuarter
    /\ turn.text = <<"Q", "5">>
    /\ conv_data.state = "selecting_quarter"
    /\ Sent(QuarterReprompt)

\* C2: in selecting_quarter a quarter token in any case is handled as its
\* upper-cased form is: one generation request is issued in the same turn
\* with that quarter and the configured leader id, no further prompt comes
\* first, a success returns the record to initial, and a failure keeps the
\* upper-cased token as the record's quarter.
C2_QuarterAnyCase ==
    (InSelectingQuarter /\ Upper(TurnText) \in FourQuarters)
        => /\ Len(turn.requests) = 1
           /\ turn.requests[1].q = Some(Upper(TurnText))
           /\ turn.requests[1].matricula_lider = LeaderId
           /\ turn.generation \in {"success", "failure"}
           /\ turn.generation = "success" => conv_data.state = "initial"
           /\ turn.generation = "failure"
                 => /\ conv_data.state = "selecting_quarter"
                    /\ conv_data.quarter = Some(Upper(TurnText))
           /\ \A e \in ExternalOutcomes(turn.before, turn.text) :
                 on_message_activity(turn.before, turn.text, e)
                     = on_message_activity(turn.before, Upper(TurnText), e)

\* C2 witness: "q2" was sent in selecting_quarter, the report was generated
\* for Q2 and the conversation is back in initial.
C2_Witness ==
    /\ InSelectingQuarter
    /\ turn.text = <<"q", "2">>
    /\ turn.generation = "success"
    /\ turn.requests[1].q = Some(Q2)
    /\ conv_data.state = "initial"

\* C3: after a successful generation the record is the default record, and
\* "Generar la presentación" sent next gives the record and the messages it
\* gives in a brand-new conversation.
C3_ResetToDefaults ==
    (Handled /\ turn.generation = "success")
        => /\ conv_data = DefaultRecord
           /\ on_message_activity(conv_data, T_GenerarPresentacion, AllGood).conv
                 = on_message_activity(DefaultRecord, T_GenerarPresentacion, AllGood).conv
           /\ on_message_activity(conv_data, T_GenerarPresentacion, AllGood).sent
                 = on_message_activity(DefaultRecord, T_GenerarPresentacion, AllGood).sent

\* C4: "Descartar y volver al inicio" in confirming_agenda_changes and
\* "Volver al inicio" in selecting_quarter leave the default record.
C4_DiscardResets ==
    (Handled
        /\ \/ turn.before.state = "confirming_agenda_changes" /\ TurnText = T_Descartar
           \/ turn.before.state = "selecting_quarter" /\ TurnText = T_VolverAlInicio)
        => conv_data = DefaultRecord

\* C5: a failed generation call ends the turn with the failure message and
\* the menu "Reintentar" / "Volver al inicio", and resets nothing: the state
\* is selecting_quarter, the quarter is the one of the request, the agenda is
\* the one the request was made for, the change history is untouched.
C5_FailureKeepsFlow ==
    (Handled /\ turn.generation = "failure")
        => /\ Len(turn.sent) >= 2
           /\ turn.sent[Len(turn.sent) - 1] = GenerationFailed
           /\ turn.sent[Len(turn.sent)].actions = <<T_Reintentar, T_VolverAlInicio>>
           /\ conv_data.state = "selecting_quarter"
           /\ conv_data.quarter = turn.requests[1].q
           /\ Upper(TurnText) \in FourQuarters => conv_data.quarter = Some(Upper(TurnText))
           /\ conv_data.next_meeting_agenda # None
           /\ Truthy(turn.before.next_meeting_agenda)
                 => conv_data.next_meeting_agenda = turn.before.next_meeting_agenda
           /\ Truthy(conv_data.next_meeting_agenda)
                 => turn.requests[1].agenda = conv_data.next_meeting_agenda[1]
           /\ conv_data.agenda_change_history = turn.before.agenda_change_history

\* C5 witness: the call raised (a transport error) for an edited agenda; the
\* retry menu was sent and the quarter and the agenda are still in the record.
C5_Witness ==
    /\ Handled
    /\ turn.generation = "failure"
    /\ SentText("Ocurrió un error inesperado: {e}")
    /\ Sent(RetryMenu)
    /\ conv_data.state = "selecting_quarter"
    /\ conv_data.quarter = Some(Q1)
    /\ conv_data.agenda_change_history # <<>>
    /\ Truthy(conv_data.next_meeting_agenda)

\* C6: "Reintentar" sent right after a failed generation issues the request
\* of the failed attempt again: the same quarter and the same agenda.
C6_RetryRepeatsTheAttempt ==
    (Handled /\ turn.previous.generation = "failure" /\ Upper(TurnText) = U_REINTENTAR)
        => turn.requests = turn.previous.requests

\* C7: no activity issues more than one generation request, and a request
\* is issued only by a message that is a quarter token or "Reintentar".
C7_NoAutomaticRetry ==
    /\ Len(turn.requests) <= 1
    /\ turn.requests # <<>>
          => /\ Handled
             /\ Upper(TurnText) \in FourQuarters \cup {U_REINTENTAR}

\* C7 witness: a retry was sent, its call failed, and one request was issued.
C7_Witness ==
    /\ Handled
    /\ Upper(TurnText) = U_REINTENTAR
    /\ turn.generation = "failure"
    /\ Len(turn.requests) = 1

\* A lookup of the last activity failed: the read of agenda.json by
\* get_next_meeting_agenda or the read of the session-content file.
LookupFailed ==
    \E i \in 1..Len(turn.lookups) :
        /\ turn.lookups[i].by \notin {"save_agenda_to_share", "get_new_team_members"}
        /\ turn.lookups[i].outcome # "ok"

\* The messages that report a failed lookup.
LookupErrorTexts ==
    { "No se encontró el archivo de agenda en Azure File Storage. Contacta al administrador.",
      "Error al leer la agenda: {error_msg}.",
      "No se encontró el archivo test_processed.txt en Azure File Storage. Contacta al administrador.",
      "Error al leer el contenido: {error_msg}." }

LookupErrorSent == \E i \in 1..Len(turn.sent) : turn.sent[i].text \in LookupErrorTexts

\* C8: a turn in which a lookup on the share fails sends an error message and
\* ends in the flow state it began in, whatever that state is.
C8_FailedLookupKeepsState ==
    LookupFailed => (LookupErrorSent /\ conv_data.state = turn.before.state)

\* The points of an agenda input as the user wrote them: the lines when there
\* is a line break, else the comma-separated parts, each trimmed; a blank
\* part between two separators is no point.
WrittenPoints(t) ==
    LET parts == IF Contains(t, "\n") THEN Split(t, "\n") ELSE Split(t, ",")
        NotBlank(part) == Strip(part) # <<>>
        written == SelectSeq(parts, NotBlank)
    IN  IF written = <<>> THEN <<>>
        ELSE [i \in 1..Len(written) |-> Strip(written[i])]

HasLetter(p) == \E i \in 1..Len(p) : IsAlpha(p[i])

\* An input C9 says is rejected: empty, made of separators only, or with a
\* point that has no letter or more than 20 words.
BadAgendaInput(t) ==
    \/ t = <<>>
    \/ WrittenPoints(t) = <<>>
    \/ \E i \in 1..Len(WrittenPoints(t)) :
          \/ ~HasLetter(WrittenPoints(t)[i])
          \/ WordCount(WrittenPoints(t)[i]) > 20

\* An input C10 says is accepted.
GoodAgendaInput(t) ==
    /\ t # <<>>
    /\ Len(WrittenPoints(t)) \in 1..10
    /\ \A i \in 1..Len(WrittenPoints(t)) :
          /\ HasLetter(WrittenPoints(t)[i])
          /\ WordCount(WrittenPoints(t)[i]) \in 1..20

\* C9: in awaiting_agenda_input an input that is empty, or is made only of
\* separators, or has a point with no letter or with more than 20 words, is
\* rejected: a message is sent, the state stays awaiting_agenda_input, and
\* the agenda and the change history are left as they were.
C9_BadInputRejected ==
    (InAwaitingAgendaInput /\ BadAgendaInput(TurnText))
        => /\ turn.sent # <<>>
           /\ conv_data.state = "awaiting_agenda_input"
           /\ conv_data.next_meeting_agenda = turn.before.next_meeting_agenda
           /\ conv_data.agenda_change_history = turn.before.agenda_change_history

\* C10: in awaiting_agenda_input an input of 1 to 10 points, each of 1 to 20
\* words with a letter, is accepted: the points are kept in order with their
\* first character upper-cased, the proposed agenda is shown and the state
\* becomes confirming_agenda_changes.
C10_GoodInputAccepted ==
    (InAwaitingAgendaInput /\ GoodAgendaInput(TurnText))
        => LET written == WrittenPoints(TurnText)
               points == [i \in 1..Len(written) |->
                             <<UpperChar(written[i][1])>> \o Tail(written[i])]
               agenda == IF turn.before.modification_type = Some(T_Reescribir)
                         THEN points
                         ELSE turn.before.next_meeting_agenda[1] \o points
           IN  /\ conv_data.state = "confirming_agenda_changes"
               /\ conv_data.next_meeting_agenda = Some(agenda)
               /\ Sent(MsgOf("Así luciría la nueva agenda:", agenda))

\* The message that lists the rejected points.
Rejection(points) == MsgOf("Algunos puntos no cumplen los requisitos:", points)

\* C11: in awaiting_agenda_input an empty or whitespace-only input makes
\* generate_agenda_points return exactly ["La entrada no puede estar vacía."],
\* on the text as sent and on the trimmed text the handler passes; that list
\* is sent back as the rejected points and the record, with its state, stays.
C11_EmptyInputRejected ==
    (InAwaitingAgendaInput /\ Strip(turn.text) = <<>>)
        => /\ generate_agenda_points(turn.text) = <<E_EntradaVacia>>
           /\ generate_agenda_points(TurnText) = <<E_EntradaVacia>>
           /\ turn.sent = <<Rejection(<<E_EntradaVacia>>)>>
           /\ conv_data = turn.before
           /\ conv_data.state = "awaiting_agenda_input"

\* C11 witness: a single blank was sent in awaiting_agenda_input and was
\* rejected as an empty input.
C11_Witness ==
    /\ InAwaitingAgendaInput
    /\ turn.text = <<" ">>
    /\ Sent(Rejection(<<E_EntradaVacia>>))
    /\ conv_data.state = "awaiting_agenda_input"

\* The text p names the maximum of 10.
CitesTen(p) == \E i \in 1..(Len(p) - 1) : p[i] = "1" /\ p[i + 1] = "0"

\* C12: in awaiting_agenda_input an input of more than 10 points makes
\* generate_agenda_points return one message, which names the maximum of 10;
\* it is sent back as the rejection, and the record, with its agenda and its
\* state, stays as it was.
C12_TooManyPointsRejected ==
    (InAwaitingAgendaInput /\ Len(WrittenPoints(TurnText)) > 10)
        => /\ Len(generate_agenda_points(TurnText)) = 1
           /\ CitesTen(generate_agenda_points(TurnText)[1])
           /\ turn.sent = <<Rejection(generate_agenda_points(TurnText))>>
           /\ conv_data = turn.before
           /\ conv_data.state = "awaiting_agenda_input"

\* C12 witness: eleven comma-separated items were sent and rejected.
C12_Witness ==
    /\ InAwaitingAgendaInput
    /\ TurnText = Repeat(<<"a">>, <<",">>, 11)
    /\ Sent(Rejection(<<E_DemasiadosPuntos>>))
    /\ conv_data.state = "awaiting_agenda_input"

PlainItems ==
    \A i \in 1..Len(submitted) :
        ~Contains(submitted[i], ",") /\ ~Contains(submitted[i], "\n")

InputAccepted ==
    InAwaitingAgendaInput /\ conv_data.state = "confirming_agenda_changes"

\* The last entry of the record's change history.
LastChange == conv_data.agenda_change_history[Len(conv_data.agenda_change_history)]

\* C14 as stated: when the input has been accepted and the confirmation is
\* awaited, next_meeting_agenda still is the agenda that was reviewed.
C14_AgendaUntouchedUntilConfirmed ==
    InputAccepted => conv_data.next_meeting_agenda = turn.before.next_meeting_agenda

\* C14 amended: accepting the input stores the resulting agenda in
\* next_meeting_agenda at once and keeps the agenda that was reviewed as
\* old_agenda of the last change entry; while the confirmation is awaited
\* the record stays as it is, no generation request is issued and nothing is
\* saved to the share; "Descartar y volver al inicio" clears the agenda and
\* "Confirmar y Generar Presentación" takes the stored agenda, unchanged, to
\* the quarter selection.
C14_StoredOnAcceptanceUsedOnConfirmation ==
    /\ InputAccepted
          => /\ conv_data.agenda_change_history # <<>>
             /\ LastChange.old_agenda = turn.before.next_meeting_agenda[1]
             /\ LastChange.new_agenda = conv_data.next_meeting_agenda[1]
             /\ conv_data.next_meeting_agenda
                    = Some(IF turn.before.modification_type = Some(T_Reescribir)
                           THEN generate_agenda_points(TurnText)
                           ELSE turn.before.next_meeting_agenda[1]
                                    \o generate_agenda_points(TurnText))
    /\ (Handled /\ "confirming_agenda_changes" \in {turn.before.state, conv_data.state})
          => /\ turn.requests = <<>>
             /\ turn.lookups = <<>>
             /\ turn.generation = "none"
    /\ (Handled /\ turn.before.state = "confirming_agenda_changes")
          => CASE TurnText = T_Confirmar ->
                      /\ conv_data.state = "selecting_quarter"
                      /\ conv_data.next_meeting_agenda = turn.before.next_meeting_agenda
                      /\ Truthy(conv_data.next_meeting_agenda)
               [] TurnText = T_Descartar ->
                      /\ conv_data.state = "initial"
                      /\ conv_data.next_meeting_agenda = None
               [] OTHER -> conv_data = turn.before

\* C14 witness: points were accepted for an agenda under review; the record
\* holds the new agenda and the change entry holds the reviewed one.
C14_Witness ==
    /\ InputAccepted
    /\ conv_data.next_meeting_agenda # turn.before.next_meeting_agenda
    /\ LastChange.old_agenda = turn.before.next_meeting_agenda[1]
    /\ LastChange.new_agenda = conv_data.next_meeting_agenda[1]

\* The last turn called the report function.
ReportRequested == Handled /\ turn.requests # <<>>

\* The last turn read agenda.json for the next meeting's agenda, and the
\* download succeeded.
AgendaFetched ==
    \E i \in 1..Len(turn.lookups) :
        /\ turn.lookups[i].by = "get_next_meeting_agenda"
        /\ turn.lookups[i].outcome = "ok"

\* In a step that handles a message: the conversation's agenda when the
\* report function is called, which is the one the record has, else the one
\* the turn fetches from the file as it is when the turn begins.
AgendaAtCall ==
    IF Truthy(conv_data.next_meeting_agenda) THEN conv_data.next_meeting_agenda
    ELSE IF AgendaFetched' THEN Some(get_next_meeting_agenda("ok").agenda)
    ELSE None

\* C15 as stated: a request made without an agenda carries a placeholder of
\* exactly six items; any other request carries the conversation's agenda.
C15_SixItemPlaceholder ==
    [][ (turns' = turns + 1 /\ ReportRequested')
            => \A i \in 1..Len(turn'.requests) :
                  IF Truthy(AgendaAtCall)
                  THEN turn'.requests[i].agenda = AgendaAtCall[1]
                  ELSE Len(turn'.requests[i].agenda) = 6 ]_vars

\* C15 amended: a request made without an agenda (none in the record and
\* none fetched, or an empty one) carries the fixed placeholder of exactly
\* two items, "Punto 1 de la agenda" and "Punto 2 de la agenda"; any other
\* request carries the conversation's agenda.
C15_TwoItemPlaceholder ==
    [][ (turns' = turns + 1 /\ ReportRequested')
            => \A i \in 1..Len(turn'.requests) :
                  IF Truthy(AgendaAtCall)
                  THEN turn'.requests[i].agenda = AgendaAtCall[1]
                  ELSE /\ turn'.requests[i].agenda = PlaceholderAgenda
                       /\ turn'.requests[i].agenda = <<PH_Punto1, PH_Punto2>>
                       /\ Len(turn'.requests[i].agenda) = 2 ]_vars

\* C15 witness: a quarter was chosen with no agenda in the record, the file
\* could not be read, and the request went out with the placeholder.
C15_Witness ==
    /\ ReportRequested
    /\ Upper(TurnText) \in FourQuarters
    /\ turn.before.next_meeting_agenda = None
    /\ \E i \in 1..Len(turn.lookups) :
          /\ turn.lookups[i].by = "get_next_meeting_agenda"
          /\ turn.lookups[i].outcome # "ok"
    /\ turn.requests[1].agenda = PlaceholderAgenda

\* C16: a conversation in reviewing_session_content leaves that state when
\* the offered choice "Proceder al envío" is sent.
C16_ReviewCanBeLeft ==
    conv_data.state = "reviewing_session_content"
        => on_message_activity(conv_data, T_Proceder, AllGood).conv.state
              # "reviewing_session_content"

\* The external calls of the last turn that failed: the downloads that did
\* not succeed and the call of the report function.
FailedCalls ==
    Cardinality({i \in 1..Len(turn.lookups) : turn.lookups[i].outcome # "ok"})
        + (IF turn.generation = "failure" THEN 1 ELSE 0)

\* The messages with which the bot reports a failed external call.
FailureTexts ==
    LookupErrorTexts
        \cup { "Error al guardar la agenda: {error_msg}.",
               "Lo siento, ocurrió un error al generar tu reporte.",
               "Ocurrió un error inesperado: {e}",
               "Error al generar la presentación. La agenda no se guardó." }

\* The messages of the last turn that report a failure.
FailureReports == {i \in 1..Len(turn.sent) : turn.sent[i].text \in FailureTexts}

\* C17: every external call that fails during a turn is reported to the user
\* in a message of that turn, and the turn is not aborted.
C17_EveryFailureReported ==
    (Handled /\ FailedCalls > 0)
        => /\ ~turn.raised
           /\ Cardinality(FailureReports) >= FailedCalls

\* The message that asks to contact the administrator about the file of a
\* lookup.
AdminContact(file) ==
    IF file = "agenda.json"
    THEN "No se encontró el archivo de agenda en Azure File Storage. Contacta al administrador."
    ELSE "No se encontró el archivo test_processed.txt en Azure File Storage. Contacta al administrador."

\* The generic error message of a lookup of the file.
GenericError(file) ==
    IF file = "agenda.json"
    THEN "Error al leer la agenda: {error_msg}."
    ELSE "Error al leer el contenido: {error_msg}."

\* C18: a failed agenda or session-content lookup is answered with the
\* administrator-contact message when the file is not found and when it is
\* malformed, and with the generic error message for any other cause.
C18_MalformedAsksForAdministrator ==
    Handled
        => \A i \in 1..Len(turn.lookups) :
              turn.lookups[i].by \in {"get_next_meeting_agenda", "on_message_activity"}
                 => /\ turn.lookups[i].outcome \in {"ResourceNotFound", "Malformed"}
                          => /\ SentText(AdminContact(turn.lookups[i].file))
                             /\ ~SentText(GenericError(turn.lookups[i].file))
                    /\ turn.lookups[i].outcome = "Other"
                          => /\ SentText(GenericError(turn.lookups[i].file))
                             /\ ~SentText(AdminContact(turn.lookups[i].file))

\* C19: a message of the conversation is handled to its end, write-back
\* included, before the handling of the next one begins: at most one handler
\* of the conversation is under way at any time.
C19_OneMessageAtATime == Len(inflight) <= 1

\* C20: handling a message of one conversation leaves the record of the
\* other conversation unchanged, and leaves unchanged the agenda, the
\* messages and the transitions the other conversation gets for its next
\* message.
C20_ConversationsIndependent ==
    (Handled /\ turn.at = now)
        => LET other == IF turn.conversation = 1 THEN conv_other ELSE conv_data
           IN  /\ other = turn.other
               /\ Observes(other) = turn.observed

\* The last turn called save_agenda_to_share.
SaveAttempted ==
    \E i \in 1..Len(turn.lookups) : turn.lookups[i].by = "save_agenda_to_share"

\* The position of the first message of the last turn with the text t, or 0.
FirstSent(t) ==
    IF SentText(t) THEN Min({i \in 1..Len(turn.sent) : turn.sent[i].text = t}) ELSE 0

\* C21: the agenda file changes only in a step that handles a message whose
\* report call succeeded; save_agenda_to_share is called only in such a turn,
\* after the one report call of the turn has answered; a turn whose call
\* failed and a turn without a call neither save nor change the file.
C21_SavedOnlyAfterSuccess ==
    [][ /\ agenda_file' # agenda_file => (turns' = turns + 1 /\ SaveAttempted')
        /\ (turns' = turns + 1 /\ SaveAttempted')
              => /\ turn'.activity = "message"
                 /\ turn'.generation = "success"
                 /\ Len(turn'.requests) = 1
                 /\ turn'.lookups[Len(turn'.lookups)].by = "save_agenda_to_share"
                 /\ FirstSent("¡Tu reporte está listo!")' > 0
                 /\ \A i \in 1..Len(turn'.sent) :
                       turn'.sent[i].text
                             \in { "Error al guardar la agenda: {error_msg}.",
                                   "No hay reuniones programadas para actualizar.",
                                   "No hay reuniones futuras para actualizar.",
                                   "Reporte generado y agenda actualizada." }
                          => i > FirstSent("¡Tu reporte está listo!")'
        /\ (turns' = turns + 1 /\ turn'.generation # "success")
              => (agenda_file' = agenda_file /\ ~SaveAttempted') ]_vars

\* C21 witness: an edited agenda was saved after a successful report call and
\* is now the agenda of the next meeting in the file.
C21_Witness ==
    /\ Handled
    /\ turn.generation = "success"
    /\ SaveAttempted
    /\ turn.before.agenda_change_history # <<>>
    /\ FutureMeetings(agenda_file, now) # {}
    /\ agenda_file[NextMeeting(agenda_file, now)].agenda = turn.before.next_meeting_agenda[1]
    /\ agenda_file \notin AgendaFiles

\* The states of the agenda-editing sub-flow.
EditingStates ==
    { "awaiting_modification_choice", "modifying_agenda", "awaiting_agenda_input",
      "confirming_agenda_changes" }

\* The transitions the claim lists, as <<from, to>>, each with the texts that
\* take it (any accepted text for the input of the points).
ListedTransition(from, text, to) ==
    \/ from = "initial" /\ to = "awaiting_modification_choice" /\ text = T_RevisarAgenda
    \/ from = "awaiting_modification_choice" /\ to = "modifying_agenda"
          /\ text = T_RealizarModificaciones
    \/ from = "awaiting_modification_choice" /\ to = "selecting_quarter"
          /\ text = T_GenerarPresentacion
    \/ from = "modifying_agenda" /\ to = "awaiting_agenda_input"
          /\ text \in {T_Reescribir, T_Mantener}
    \/ from = "awaiting_agenda_input" /\ to = "confirming_agenda_changes"
    \/ from = "confirming_agenda_changes" /\ to = "selecting_quarter" /\ text = T_Confirmar
    \/ from = "confirming_agenda_changes" /\ to = "initial" /\ text = T_Descartar

\* The transitions out of initial the claim does not list.
StartTransition(from, text, to) ==
    \/ from = "initial" /\ to = "selecting_quarter" /\ text = T_GenerarPresentacion
          /\ ~junta_enabled
    \/ from = "initial" /\ to = "reviewing_session_content" /\ text = T_RevisarContenido
          /\ junta_enabled

\* The last turn left the record as it was and answered with a message.
Reprompted ==
    /\ conv_data = turn.before
    /\ ~turn.raised
    /\ turn.sent # <<>>
    /\ turn.requests = <<>>

\* C22 as stated: a message handled in initial or in an editing state takes
\* one of the listed transitions, or leaves the record unchanged and is
\* answered with a re-prompt.
C22_OnlyListedTransitions ==
    (Handled /\ turn.before.state \in EditingStates \cup {"initial"})
        => \/ ListedTransition(turn.before.state, TurnText, conv_data.state)
           \/ Reprompted

\* C22 amended: a message handled in initial or in an editing state takes one
\* of the listed transitions, or, in initial, the transition to
\* selecting_quarter on "Generar la presentación" (JUNTA off) or to
\* reviewing_session_content on "Revisar contenido de la sesión" (JUNTA on),
\* or leaves the record unchanged and is answered with a message; "Revisar
\* agenda" that finds no agenda points leaves the record unchanged too, with
\* no other answer than the message of the lookup, if it sent one.  The flow
\* state changes in no other way, and "Revisar agenda" is taken only with
\* JUNTA off and leaves a non-empty agenda in the record.
C22_ListedAndStartTransitions ==
    (Handled /\ turn.before.state \in EditingStates \cup {"initial"})
        => /\ \/ ListedTransition(turn.before.state, TurnText, conv_data.state)
              \/ StartTransition(turn.before.state, TurnText, conv_data.state)
              \/ Reprompted
              \/ /\ turn.before.state = "initial"
                 /\ TurnText = T_RevisarAgenda
                 /\ ~junta_enabled
                 /\ conv_data = turn.before
                 /\ ~turn.raised
                 /\ turn.requests = <<>>
                 /\ turn.sent = <<>>
           /\ conv_data.state # turn.before.state
                 => /\ ~turn.raised
                    /\ turn.sent # <<>>
                    /\ turn.requests = <<>>
           /\ (turn.before.state = "initial"
                  /\ conv_data.state = "awaiting_modification_choice")
                 => (~junta_enabled /\ Truthy(conv_data.next_meeting_agenda))

\* C22 witness: "Generar la presentación" in initial went to selecting_quarter.
C22_Witness ==
    /\ Handled
    /\ turn.before.state = "initial"
    /\ TurnText = T_GenerarPresentacion
    /\ conv_data.state = "selecting_quarter"
    /\ turn.sent = QuarterPrompt

\* C23: when an input is accepted, with new points the validated list of the
\* input and reviewed the agenda the record held, the record's agenda is the
\* new points alone after "Reescribir toda la agenda" and the reviewed
\* agenda followed by the new points, in order, after "Mantener los puntos
\* anteriores y agregar nuevos"; one entry is appended to the change history
\* and has the reviewed agenda as old_agenda and the record's agenda as
\* new_agenda.
C23_RewriteOrAppend ==
    InputAccepted
        => LET new_points == generate_agenda_points(TurnText)
               reviewed == turn.before.next_meeting_agenda[1]
               agenda == conv_data.next_meeting_agenda[1]
               history == conv_data.agenda_change_history
           IN  /\ turn.before.modification_type \in {Some(T_Reescribir), Some(T_Mantener)}
               /\ new_points # <<>>
               /\ turn.before.modification_type = Some(T_Reescribir)
                     => /\ agenda = new_points
                        /\ history[Len(history)].modification_type = "rewrite"
               /\ turn.before.modification_type = Some(T_Mantener)
                     => /\ Len(agenda) = Len(reviewed) + Len(new_points)
                        /\ SubSeq(agenda, 1, Len(reviewed)) = reviewed
                        /\ SubSeq(agenda, Len(reviewed) + 1, Len(agenda)) = new_points
                        /\ history[Len(history)].modification_type = "append"
                        /\ history[Len(history)].added_points = new_points
               /\ Len(history) = Len(turn.before.agenda_change_history) + 1
               /\ SubSeq(history, 1, Len(history) - 1) = turn.before.agenda_change_history
               /\ history[Len(history)].old_agenda = reviewed
               /\ history[Len(history)].new_agenda = agenda
               /\ Sent(MsgOf("Así luciría la nueva agenda:", agenda))

\* C23 witness: two points were added to a reviewed agenda that was kept.
C23_Witness ==
    /\ InputAccepted
    /\ turn.before.modification_type = Some(T_Mantener)
    /\ TurnText = <<"b", ",", "c">>
    /\ conv_data.next_meeting_agenda
          = Some(turn.before.next_meeting_agenda[1] \o << <<"B">>, <<"C">> >>)
    /\ LastChange.added_points = << <<"B">>, <<"C">> >>

\* The lookup was made and the file was read.
LookedUp == turn.activity = "lookup" /\ turn.outcome = "ok"

\* The meetings of the file that start strictly later than the current time.
LaterMeetings == {i \in 1..Len(agenda_file) : agenda_file[i].start > now}

\* C24: the lookup returns, without a message, the agenda of the meeting that
\* starts earliest among those starting strictly later than the current time
\* (the first of them in the file when several start then), whatever meetings
\* lie in the past; it returns the empty list with the message about no
\* meetings for an empty file, and with the message about no future meetings
\* when no meeting starts later than the current time.
C24_EarliestFutureMeeting ==
    LookedUp
        => IF agenda_file = <<>>
           THEN /\ turn.agenda = <<>>
                /\ turn.sent = <<Msg("No hay reuniones programadas en la agenda.")>>
           ELSE IF LaterMeetings = {}
           THEN /\ turn.agenda = <<>>
                /\ turn.sent = <<Msg("No hay reuniones futuras en la agenda.")>>
           ELSE /\ turn.sent = <<>>
                /\ \E k \in LaterMeetings :
                      /\ \A j \in LaterMeetings :
                            /\ agenda_file[k].start <= agenda_file[j].start
                            /\ agenda_file[j].start = agenda_file[k].start => k <= j
                      /\ turn.agenda = agenda_file[k].agenda

\* C24 witness: the file lists a later meeting first, then an earlier future
\* one, then one that starts now; the agenda returned is that of the earlier
\* future meeting.
C24_Witness ==
    /\ LookedUp
    /\ now = 0
    /\ agenda_file = << Meeting("m", 2, << <<"Y">> >>),
                        Meeting("m", 1, << <<"X">> >>),
                        Meeting("m", 0, << <<"Y">> >>) >>
    /\ turn.agenda = << <<"X">> >>
    /\ turn.sent = <<>>

\* C25: every generation request carries one of Q1..Q4, and it is the quarter
\* the user chose in the current flow: the token of this message, or, for a
\* retry, the quarter of the failed request of the turn before.
C25_RequestsCarryChosenQuarter ==
    ReportRequested
        => \A i \in 1..Len(turn.requests) :
              /\ turn.requests[i].q \in {Some(q) : q \in FourQuarters}
              /\ \/ turn.requests[i].q = Some(Upper(TurnText))
                 \/ /\ Upper(TurnText) = U_REINTENTAR
                    /\ turn.previous.generation = "failure"
                    /\ turn.previous.requests # <<>>
                    /\ turn.requests[i].q = turn.previous.requests[1].q

\* C26: in every state of a conversation whose messages are handled one at a
\* time, in each editing state next_meeting_agenda is a non-empty list; in
\* awaiting_agenda_input and after it modification_type is one of the two
\* modification options; and no message handled in an editing state makes
\* the handler raise on a missing field.
C26_EditingStatesHaveAgenda ==
    /\ conv_data.state \in EditingStates
          => /\ conv_data.next_meeting_agenda # None
             /\ Truthy(conv_data.next_meeting_agenda)
             /\ Len(conv_data.next_meeting_agenda[1]) >= 1
    /\ conv_data.state \in {"awaiting_agenda_input", "confirming_agenda_changes"}
          => conv_data.modification_type \in {Some(T_Reescribir), Some(T_Mantener)}
    /\ (Handled /\ turn.before.state \in EditingStates) => ~turn.raised

\* C26 witness: the points are awaited for an agenda that is kept.
C26_Witness ==
    /\ conv_data.state = "awaiting_agenda_input"
    /\ Handled
    /\ turn.before.state = "modifying_agenda"
    /\ conv_data.modification_type = Some(T_Mantener)
    /\ Truthy(conv_data.next_meeting_agenda)

\* C27: with JUNTA on the conversation is only ever in initial or in
\* reviewing_session_content, no report is requested, and no quarter or
\* agenda gets into the record; with JUNTA off the conversation is never in
\* reviewing_session_content and session_content is never set.
C27_JuntaPartitionsTheFlow ==
    /\ junta_enabled
          => /\ conv_data.state \in {"initial", "reviewing_session_content"}
             /\ turn.requests = <<>>
             /\ turn.generation = "none"
             /\ conv_data.quarter = None
             /\ conv_data.next_meeting_agenda = None
             /\ conv_data.agenda_change_history = <<>>
    /\ ~junta_enabled
          => /\ conv_data.state # "reviewing_session_content"
             /\ conv_data.session_content = None
             /\ \A i \in 1..Len(turn.lookups) : turn.lookups[i].file # "test_processed.txt"

\* C27 witness: with JUNTA on, "Generar la presentación" was sent in initial
\* and was refused.
C27_Witness ==
    /\ junta_enabled
    /\ Handled
    /\ TurnText = T_GenerarPresentacion
    /\ turn.before.state = "initial"
    /\ conv_data.state = "initial"
    /\ turn.sent = <<Msg("Por favor, selecciona una opción válida.")>>

\* The agenda the conversation fetched for review: the one the first change
\* entry keeps as old_agenda, or the record's agenda when nothing was edited.
ReviewedAgenda ==
    IF conv_data.agenda_change_history # <<>>
    THEN conv_data.agenda_change_history[1].old_agenda
    ELSE conv_data.next_meeting_agenda[1]

\* C28: a step that changes the agenda file changes only the meeting whose
\* agenda the conversation fetched and reviewed; every other meeting of the
\* file keeps its agenda, also when time has advanced since the review.
C28_SavedOnTheReviewedMeeting ==
    [][ agenda_file' # agenda_file
           => /\ Len(agenda_file') = Len(agenda_file)
              /\ \A i \in 1..Len(agenda_file) :
                    agenda_file'[i] # agenda_file[i]
                       => agenda_file[i].agenda = ReviewedAgenda ]_vars

====
